---- MODULE Spec2Model ----
(***************************************************************************)
(* bevy_navigator: the waypoint graph (src/src/navigation.rs) -- mutation, *)
(* occupancy bookkeeping and the occupancy-aware A* search -- and the      *)
(* travelers that follow its paths (src/src/traveler.rs).                  *)
(*                                                                         *)
(* u32 values are written as signed representatives: a value v < 2^31 is   *)
(* written v, a value v >= 2^31 is written v - 2^32 (so u32::MAX is -1).   *)
(* AddU32/SubU32/LtU32 are the u32 operations on these representatives.    *)
(***************************************************************************)
EXTENDS Integers, Sequences, FiniteSets, TLC

\* ---- bounds of the model ------------------------------------------------
MaxId == 4          \* waypoint ids are 1..MaxId
MaxOps == 1         \* mutating calls (add/connect/remove) made after the build
MaxWrap == 1        \* how far below zero a released counter may be driven
MaxTurns == 24      \* turns of the search loop that are followed
MaxDelta == 4       \* the longest time step of a tick

Ids == 1..MaxId

\* ---- u32 arithmetic -----------------------------------------------------
U32Max == -1

\* unsigned x < y
LtU32(x, y) == IF (x < 0) = (y < 0) THEN x < y ELSE y < 0

\* x + y on u32: the wrapped sum, and whether it overflowed
AddU32(x, y) ==
    [val |-> x + y,
     ovf |-> \/ (x < 0 /\ y < 0)
             \/ ((x < 0) # (y < 0) /\ x + y >= 0)]

\* x - y on u32: the wrapped difference, and whether it overflowed
SubU32(x, y) == [val |-> x - y, ovf |-> LtU32(x, y)]

\* ---- NavPoint -----------------------------------------------------------
NavPoint_new(id, location, speed_modifier, max_occupancy) ==
    [id |-> id,
     location |-> location,
     speed_modifier |-> speed_modifier,
     connections |-> {},
     max_occupancy |-> max_occupancy,
     current_occupancy |-> 0]

NavPoint_can_occupy(p) == LtU32(p.current_occupancy, p.max_occupancy)

\* a faulty variant: one occupant more than the capacity is let in
NavPoint_occupy_over(p) ==
    IF ~LtU32(p.max_occupancy, p.current_occupancy)
    THEN [point |-> [p EXCEPT !.current_occupancy = @ + 1], ok |-> TRUE]
    ELSE [point |-> p, ok |-> FALSE]

\* the point after the call, and the value returned
NavPoint_occupy(p) ==
    IF NavPoint_can_occupy(p)
    THEN [point |-> [p EXCEPT !.current_occupancy = @ + 1], ok |-> TRUE]
    ELSE [point |-> p, ok |-> FALSE]

\* a faulty variant: the release forgets to decrement
NavPoint_unoccupy_keep(p) == [point |-> p, ovf |-> FALSE]

\* (current_occupancy - 1).max(0) on a u32: the subtraction overflows at 0
\* (abort with overflow checks, wrap without), and max(0) changes nothing.
NavPoint_unoccupy(p) ==
    LET d == SubU32(p.current_occupancy, 1)
    IN  [point |-> [p EXCEPT !.current_occupancy =
                        IF LtU32(d.val, 0) THEN 0 ELSE d.val],
         ovf |-> d.ovf]

\* ---- NavGraph: points is the HashMap<u32, NavPoint> ---------------------
EmptyPoints == [i \in {} |-> NavPoint_new(i, <<0, 0, 0>>, 1, 0)]

has_node(points, id) == id \in DOMAIN points

add_nav_point(points, point) ==
    LET linked == [i \in DOMAIN points |->
                     IF i \in point.connections
                     THEN [points[i] EXCEPT !.connections = @ \cup {point.id}]
                     ELSE points[i]]
    IN  [i \in DOMAIN points \cup {point.id} |->
            IF i = point.id THEN point ELSE linked[i]]

highest_after_add(highest, point) ==
    IF point.id > highest THEN point.id ELSE highest

\* a faulty variant: only a learns of b
connect_points_oneway(points, a, b) ==
    IF ~has_node(points, a) \/ ~has_node(points, b)
    THEN points
    ELSE [points EXCEPT ![a].connections = @ \cup {b}]

\* a faulty variant: each id is recorded at the other one that exists
connect_points_unchecked(points, a, b) ==
    [i \in DOMAIN points |->
        IF i = a /\ i = b THEN [points[i] EXCEPT !.connections = @ \cup {a}]
        ELSE IF i = a THEN [points[i] EXCEPT !.connections = @ \cup {b}]
        ELSE IF i = b THEN [points[i] EXCEPT !.connections = @ \cup {a}]
        ELSE points[i]]

connect_points(points, a, b) ==
    IF ~has_node(points, a) \/ ~has_node(points, b)
    THEN points
    ELSE LET first == [points EXCEPT ![a].connections = @ \cup {b}]
         IN  [first EXCEPT ![b].connections = @ \cup {a}]

remove_point(points, id) ==
    IF has_node(points, id)
    THEN LET point == points[id]
         IN  [i \in DOMAIN points \ {id} |->
                IF i \in point.connections
                THEN [points[i] EXCEPT !.connections = @ \ {point.id}]
                ELSE points[i]]
    ELSE points

can_occupy(points, id) ==
    IF has_node(points, id) THEN NavPoint_can_occupy(points[id]) ELSE FALSE

\* a faulty variant: the occupant is let in whatever the capacity
occupy_unchecked(points, id) ==
    IF has_node(points, id)
    THEN [points |-> [points EXCEPT ![id].current_occupancy = @ + 1],
          ok |-> TRUE]
    ELSE [points |-> points, ok |-> FALSE]

\* the map after the call, and the value returned
occupy(points, id) ==
    IF has_node(points, id)
    THEN LET r == NavPoint_occupy(points[id])
         IN  [points |-> [points EXCEPT ![id] = r.point], ok |-> r.ok]
    ELSE [points |-> points, ok |-> FALSE]

\* a faulty variant: a release empties the waypoint
unoccupy_reset(points, id) ==
    IF has_node(points, id)
    THEN [points |-> [points EXCEPT ![id].current_occupancy = 0], ovf |-> FALSE]
    ELSE [points |-> points, ovf |-> FALSE]

\* the map after the call, and whether the subtraction overflowed
unoccupy(points, id) ==
    IF has_node(points, id)
    THEN LET r == NavPoint_unoccupy(points[id])
         IN  [points |-> [points EXCEPT ![id] = r.point], ovf |-> r.ovf]
    ELSE [points |-> points, ovf |-> FALSE]

\* ---- the search ---------------------------------------------------------
distance_squared(u, v) ==
    (u[1] - v[1]) * (u[1] - v[1]) + (u[2] - v[2]) * (u[2] - v[2])
        + (u[3] - v[3]) * (u[3] - v[3])

\* (distance_squared / speed_modifier * 100.0) as u32.  The float-to-u32 cast
\* truncates and saturates at u32::MAX = 4294967295.  The locations drawn in
\* this model give quotients that are either small (the f32 arithmetic is
\* exact) or beyond 42949672 (the product exceeds u32::MAX: saturation).
h_func(points, a, b) ==
    IF has_node(points, a) /\ has_node(points, b)
    THEN LET d2 == distance_squared(points[a].location, points[b].location)
             sm == points[b].speed_modifier
         IN  IF d2 \div sm > 42949672 THEN U32Max ELSE (d2 * 100) \div sm
    ELSE U32Max

\* what a call of find_path can end in
PathSome(path) == [kind |-> "Some", path |-> path]
PathNone == [kind |-> "None", path |-> <<>>]
PathPanic == [kind |-> "panic", path |-> <<>>]
PathHang == [kind |-> "hang", path |-> <<>>]
PathCut == [kind |-> "cut", path |-> <<>>]     \* still searching at MaxTurns

\* while prev != a { total_path.push_front(prev); prev = came_from[&prev]; }
\* Indexing a missing key aborts; a cycle of predecessors never ends.
RECURSIVE total_path(_, _, _, _)
total_path(came_from, a, prev, path) ==
    IF prev = a THEN PathSome(path)
    ELSE IF prev \notin DOMAIN came_from THEN PathPanic
    ELSE IF Len(path) > Cardinality(DOMAIN came_from) THEN PathHang
    ELSE total_path(came_from, a, came_from[prev], <<prev>> \o path)

\* BinaryHeap<Reverse<PathNode>>::pop: an entry of least f; PathNode orders
\* by f alone, so which of several least entries comes out is left open.
open_set_pop(open_set) ==
    {e \in open_set : \A o \in open_set : ~LtU32(o.f, e.f)}

\* a faulty variant: the search forgets the occupancy filter
neighbor_always(points, n) == TRUE

\* let neighbor = &self.points[neighbor_id]; if !neighbor.can_occupy() { continue; }
neighbor_can_occupy(points, n) == NavPoint_can_occupy(points[n])

\* One turn of `while let Some(Reverse(current)) = open_set.pop()` with its
\* `for neighbor_id in ...connections` loop.  The neighbors are handled
\* independently of each other (current is never its own improvement), so
\* the HashSet's iteration order only decides the order of the pushes, which
\* open_set_pop leaves open anyway.  The result is the set of outcomes.
RECURSIVE search_loop(_, _, _, _)
search_loop(points, a, b, st) ==
    IF st.open_set = {} THEN {PathNone}
    ELSE IF st.turns >= MaxTurns THEN {PathCut}
    ELSE UNION {
      LET rest == st.open_set \ {current}
          ids == st.search_ids \ {current.id}
      IN
      IF current.id = b
      THEN {total_path(st.came_from, a, current.id, <<>>)}
      ELSE IF ~has_node(points, current.id)
      THEN search_loop(points, a, b,
                       [st EXCEPT !.open_set = rest, !.search_ids = ids,
                                  !.turns = @ + 1])
      ELSE
      LET nbrs == points[current.id].connections
      IN
      IF \E n \in nbrs : ~has_node(points, n)
      THEN {PathPanic}                       \* &self.points[neighbor_id]
      ELSE
      LET live == {n \in nbrs : neighbor_can_occupy(points, n)}
          tentative_g_score(n) ==
              AddU32(st.g_score[current.id], h_func(points, current.id, n))
          old_g(n) == IF n \in DOMAIN st.g_score THEN st.g_score[n] ELSE U32Max
          better == {n \in live : LtU32(tentative_g_score(n).val, old_g(n))}
          cur_f_score(n) ==
              AddU32(tentative_g_score(n).val, h_func(points, n, b))
          overflow == \E n \in live :
                         \/ tentative_g_score(n).ovf
                         \/ n \in better /\ cur_f_score(n).ovf
          next == [open_set |-> rest \cup
                       {[id |-> n, f |-> cur_f_score(n).val] : n \in better \ ids},
                   search_ids |-> ids \cup better,
                   came_from |-> [n \in DOMAIN st.came_from \cup better |->
                       IF n \in better THEN current.id ELSE st.came_from[n]],
                   g_score |-> [n \in DOMAIN st.g_score \cup live |->
                       IF n \in better THEN tentative_g_score(n).val
                       ELSE old_g(n)],
                   f_score |-> [n \in DOMAIN st.f_score \cup better |->
                       IF n \in better THEN cur_f_score(n).val
                       ELSE st.f_score[n]],
                   turns |-> st.turns + 1]
      IN  \* an overflowing addition aborts under overflow checks, wraps without
          (IF overflow THEN {PathPanic} ELSE {}) \cup search_loop(points, a, b, next)
      : current \in open_set_pop(st.open_set) }

\* a faulty variant: the origin has to pass the occupancy filter too
find_path_origin_filtered(points, a, b) ==
    IF ~(has_node(points, a) /\ has_node(points, b)) \/ ~can_occupy(points, a)
    THEN {PathNone}
    ELSE LET start_h == h_func(points, a, b)
         IN  search_loop(points, a, b,
                 [open_set |-> {[id |-> a, f |-> start_h]},
                  search_ids |-> {a},
                  came_from |-> [n \in {} |-> a],
                  g_score |-> [n \in {a} |-> 0],
                  f_score |-> [n \in {a} |-> start_h],
                  turns |-> 0])

\* the set of outcomes of find_path(a, b)
find_path(points, a, b) ==
    IF ~(has_node(points, a) /\ has_node(points, b))
    THEN {PathNone}
    ELSE LET start_h == h_func(points, a, b)
         IN  search_loop(points, a, b,
                 [open_set |-> {[id |-> a, f |-> start_h]},
                  search_ids |-> {a},
                  came_from |-> [n \in {} |-> a],
                  g_score |-> [n \in {a} |-> 0],
                  f_score |-> [n \in {a} |-> start_h],
                  turns |-> 0])

\* ---- graphs the calls below start from ----------------------------------
\* Each is built from NavGraph::new() by add_nav_point and connect_points,
\* as the tests and doc tests of navigation.rs build theirs.
Far == 10000        \* spacing at which every edge cost saturates the cast

RECURSIVE add_all(_, _)
add_all(points, new_points) ==
    IF new_points = <<>> THEN points
    ELSE add_all(add_nav_point(points, Head(new_points)), Tail(new_points))

RECURSIVE connect_all(_, _)
connect_all(points, pairs) ==
    IF pairs = <<>> THEN points
    ELSE connect_all(connect_points(points, Head(pairs)[1], Head(pairs)[2]),
                     Tail(pairs))

LineLocation(i, spacing) == <<0, (i - 1) * spacing, 0>>

DiamondLocation(i) ==
    CASE i = 1 -> <<0, 0, 0>>
      [] i = 2 -> <<0, 1, 0>>
      [] i = 3 -> <<1, 1, 0>>
      [] OTHER -> <<0, i - 2, 0>>

\* tests::test_occupancy, tests::test_remove
Diamond ==
    connect_all(
        add_all(EmptyPoints,
                [i \in 1..4 |-> NavPoint_new(i, DiamondLocation(i), 1, 1)]),
        <<<<1, 2>>, <<1, 3>>, <<2, 4>>, <<3, 4>>>>)

\* tests::test_basic_route, for n waypoints `spacing` apart
Chain(n, spacing) ==
    connect_all(
        add_all(EmptyPoints,
                [i \in 1..n |-> NavPoint_new(i, LineLocation(i, spacing), 1, 1)]),
        [i \in 1..(n - 1) |-> <<i, i + 1>>])

\* four waypoints in a line, 1-2-3-4, with the shortcut 1-3 and a fast 3
Shortcut ==
    connect_all(
        add_all(EmptyPoints,
                [i \in 1..4 |-> NavPoint_new(i, LineLocation(i, 1),
                                             IF i = 3 THEN 2 ELSE 1, 1)]),
        <<<<1, 2>>, <<2, 3>>, <<1, 3>>, <<3, 4>>>>)

\* the diamond with room for two at waypoint 2 and for none at waypoint 3
Mixed ==
    connect_all(
        add_all(EmptyPoints,
                [i \in 1..4 |-> NavPoint_new(i, DiamondLocation(i), 1,
                                             CASE i = 2 -> 2 [] i = 3 -> 0
                                               [] OTHER -> 1)]),
        <<<<1, 2>>, <<1, 3>>, <<2, 4>>, <<3, 4>>>>)

\* the diamond with waypoint 2 added a second time
Rebuilt == add_nav_point(Diamond, NavPoint_new(2, DiamondLocation(2), 1, 1))

Scenes ==
    {EmptyPoints, Diamond, Mixed, Shortcut, Rebuilt}
        \cup {Chain(n, 1) : n \in 1..MaxId}
        \cup {Chain(n, Far) : n \in 2..MaxId}

\* four waypoints on a line: 1, 2 and 4 side by side, 3 far off, and 4
\* connected through 3 only
Detour ==
    connect_all(
        add_all(EmptyPoints,
                [i \in 1..4 |-> NavPoint_new(i,
                                             CASE i = 3 -> <<0, 1 + Far, 0>>
                                               [] i = 4 -> <<0, 2, 0>>
                                               [] OTHER -> LineLocation(i, 1),
                                             1, 1)]),
        <<<<1, 2>>, <<2, 3>>, <<3, 4>>>>)

\* a triangle with two waypoints at one location: a zero-cost edge
Twins ==
    connect_all(
        add_all(EmptyPoints,
                [i \in 1..3 |-> NavPoint_new(i, LineLocation((i + 1) \div 2, 1),
                                             1, 1)]),
        <<<<1, 2>>, <<2, 3>>, <<1, 3>>>>)

\* a chain whose waypoints are connected to themselves as well
SelfConnected ==
    connect_all(Chain(3, 1), <<<<1, 1>>, <<2, 2>>, <<3, 3>>>>)

\* the graphs find_path is searched on: with cycles, self-connections,
\* zero-cost edges, full waypoints, and edges whose cost saturates
SearchScenes == Scenes \cup {Detour, Twins, SelfConnected}

\* the points add_nav_point is called with
NewPoints(id) == {NavPoint_new(id, LineLocation(id, 1), 1, 1)}

\* ---- travelers (traveler.rs) --------------------------------------------
Travelers == {1, 2}         \* the entities spawned with an AutoTraveler
Pausable == {1}             \* those the application pauses and resumes

\* Option<T>: the empty set, or the set of the one value held
None == {}
Some(x) == {x}
Unwrap(o) == CHOOSE x \in o : TRUE

\* Vec3 arithmetic.  The waypoints travelers move between in this model lie
\* on one axis at whole coordinates, where the f32 operations are exact and
\* the unit vector of a non-zero difference is its sign vector.
Sign(x) == IF x > 0 THEN 1 ELSE IF x < 0 THEN -1 ELSE 0
vec_sub(u, v) == <<u[1] - v[1], u[2] - v[2], u[3] - v[3]>>
vec_add(u, v) == <<u[1] + v[1], u[2] + v[2], u[3] + v[3]>>
vec_scale(u, k) == <<u[1] * k, u[2] * k, u[3] * k>>
length_squared(u) == u[1] * u[1] + u[2] * u[2] + u[3] * u[3]
normalize(u) == <<Sign(u[1]), Sign(u[2]), Sign(u[3])>>

\* the three policy enums; WithinRadius carries its radius
BlockedBehavior == {"Wait", "Recompute"}
DestinationBehavior == {<<"Exactly">>, <<"WithinRadius", 1>>}
PathBehavior == {"Precompute", "ProgressiveRecompute"}

\* AutoTraveler::new: the given fields, the others from AutoTraveler::default
AutoTraveler_new(origin, destination, speed) ==
    [origin |-> origin,
     destination |-> destination,
     path |-> None,
     current_index |-> 0,
     speed |-> speed,
     blocked_behavior |-> "Recompute",
     destination_behavior |-> <<"Exactly">>,
     path_behavior |-> "Precompute"]

with_blocked_behavior(auto_traveler, blocked_behavior) ==
    [auto_traveler EXCEPT !.blocked_behavior = blocked_behavior]

with_destination_behavior(auto_traveler, destination_behavior) ==
    [auto_traveler EXCEPT !.destination_behavior = destination_behavior]

with_path_behavior(auto_traveler, path_behavior) ==
    [auto_traveler EXCEPT !.path_behavior = path_behavior]

TravelerPosition(current_nav_point, next_nav_point) ==
    [current_nav_point |-> current_nav_point,
     next_nav_point |-> next_nav_point]

\* an entity: its components, the commands queued for it until the end of
\* the stage, and what move_travelers last did with it
Entity(auto_traveler, translation, claimed) ==
    [auto_traveler |-> Some(auto_traveler),
     added |-> TRUE,                  \* Added<AutoTraveler> not yet seen
     no_path |-> FALSE,               \* NoPath
     position |-> None,               \* TravelerPosition
     paused |-> FALSE,                \* TravelingPaused
     translation |-> translation,     \* Transform.translation
     commands |-> {},
     claimed |-> claimed,             \* the creator's occupy(origin) succeeded
     outcome |-> "skipped"]

\* NavGraph::get_nav_point: the waypoint stored under id, if any
get_nav_point(points, id) ==
    IF has_node(points, id) THEN Some(points[id]) ELSE None

\* the state the systems of a frame work on
World(p, ts, st) == [points |-> p, travelers |-> ts, status |-> st]

\* a faulty variant: the position is attached whether or not a path was found
compute_initial_path_one_always(w, t, out) ==
    LET e == w.travelers[t]
        auto_traveler == Unwrap(e.auto_traveler)
    IN  [w EXCEPT !.travelers[t] =
            [e EXCEPT !.commands = @ \cup {"insert TravelerPosition"},
                      !.auto_traveler =
                          Some([auto_traveler EXCEPT !.path = Some(out.path)]),
                      !.added = FALSE]]

\* the body of compute_initial_path's loop for entity t, find_path having
\* ended in out
compute_initial_path_one(w, t, out) ==
    LET e == w.travelers[t]
        auto_traveler == Unwrap(e.auto_traveler)
    IN  IF out.kind = "Some"
        THEN [w EXCEPT !.travelers[t] =
                [e EXCEPT !.commands = @ \cup {"insert TravelerPosition"},
                          !.auto_traveler =
                              Some([auto_traveler EXCEPT !.path = Some(out.path)]),
                          !.added = FALSE]]
        ELSE IF out.kind = "None"
        THEN [w EXCEPT !.travelers[t] =
                [e EXCEPT !.commands = @ \cup {"insert NoPath"},
                          !.added = FALSE]]
        ELSE [w EXCEPT !.status =
                CASE out.kind = "panic" -> "aborted"
                  [] out.kind = "hang" -> "hung"
                  [] OTHER -> "searching"]

\* compute_initial_path over the entities of its query; find_path only reads
\* the graph, so the order of the query does not matter
RECURSIVE compute_initial_path(_, _)
compute_initial_path(w, todo) ==
    IF todo = {} \/ w.status # "running" THEN {w}
    ELSE LET t == CHOOSE x \in todo : TRUE
             auto_traveler == Unwrap(w.travelers[t].auto_traveler)
         IN  UNION {compute_initial_path(compute_initial_path_one(w, t, out),
                                         todo \ {t}) :
                      out \in find_path(w.points, auto_traveler.origin,
                                        auto_traveler.destination)}

\* if auto_traveler.current_index + 1 >= path.len()
arrived(auto_traveler) ==
    auto_traveler.current_index + 1 >= Len(Unwrap(auto_traveler.path))

\* a faulty variant: a blocked traveler gives up the waypoint it cannot enter
blocked_skip(e) ==
    [e EXCEPT !.outcome = "blocked",
              !.auto_traveler =
                  Some([Unwrap(e.auto_traveler) EXCEPT !.current_index = @ + 1])]

\* a faulty variant: a blocked traveler with BlockedBehavior::Recompute drops
\* its path to have it computed again, one with BlockedBehavior::Wait waits
blocked_by_behavior(e) ==
    IF Unwrap(e.auto_traveler).blocked_behavior = "Recompute"
    THEN [e EXCEPT !.outcome = "blocked",
                   !.added = TRUE,
                   !.auto_traveler =
                       Some([Unwrap(e.auto_traveler) EXCEPT !.path = None])]
    ELSE [e EXCEPT !.outcome = "blocked"]

\* the else branch of the reservation attempt: info!("Travel blocked"); continue
blocked(e) == [e EXCEPT !.outcome = "blocked"]

\* the body of move_travelers' loop for entity t: the worlds it can leave
move_travelers_one(w, t, delta_seconds) ==
    LET e == w.travelers[t]
        auto_traveler == Unwrap(e.auto_traveler)
        traveler_position == Unwrap(e.position)
    IN
    IF auto_traveler.path = None
    THEN {[w EXCEPT !.travelers[t].outcome = "unpathed"]}
    ELSE
    LET path == Unwrap(auto_traveler.path)
    IN
    IF arrived(auto_traveler)
    THEN {[w EXCEPT !.travelers[t] =
             [e EXCEPT !.commands = @ \cup {"remove AutoTraveler"},
                       !.outcome = "retired"]]}
    ELSE
    LET target == path[auto_traveler.current_index + 2]   \* sequences start at 1
        reserve == IF traveler_position.next_nav_point = None
                   THEN occupy(w.points, target)
                   ELSE [points |-> w.points, ok |-> TRUE]
    IN
    IF ~reserve.ok
    THEN {[w EXCEPT !.travelers[t] = blocked(e)]}
    ELSE
    LET next_nav_point == IF traveler_position.next_nav_point = None
                          THEN target
                          ELSE Unwrap(traveler_position.next_nav_point)
        from == get_nav_point(reserve.points, traveler_position.current_nav_point)
        to == get_nav_point(reserve.points, next_nav_point)
        held == [e EXCEPT !.position =
                    Some(TravelerPosition(traveler_position.current_nav_point,
                                          Some(next_nav_point)))]
    IN
    IF from = None \/ to = None
    THEN {[w EXCEPT !.points = reserve.points,
                    !.travelers[t] = [held EXCEPT !.outcome = "lost"]]}
    ELSE
    LET direction == normalize(vec_sub(Unwrap(to).location, Unwrap(from).location))
        movement == vec_scale(direction,
                        auto_traveler.speed * Unwrap(from).speed_modifier
                            * delta_seconds)
        movement_len_squared == length_squared(movement)
        dist_squared == distance_squared(e.translation, Unwrap(to).location)
    IN
    \* 0.001_f32.powi(2) lies below every non-zero squared distance here
    IF movement_len_squared >= dist_squared \/ dist_squared <= 0
    THEN LET released == unoccupy(reserve.points,
                                  traveler_position.current_nav_point)
             moved == [e EXCEPT
                         !.translation = Unwrap(to).location,
                         !.position = Some(TravelerPosition(target, None)),
                         !.auto_traveler = Some([auto_traveler EXCEPT
                                                   !.current_index = @ + 1]),
                         !.outcome = "arrived"]
         IN  \* the subtraction in unoccupy wraps, or aborts the frame
             {[w EXCEPT !.points = released.points, !.travelers[t] = moved]}
               \cup (IF released.ovf
                     THEN {[w EXCEPT !.points = reserve.points,
                                     !.travelers[t] =
                                        [held EXCEPT !.translation =
                                                        Unwrap(to).location,
                                                     !.outcome = "aborted"],
                                     !.status = "aborted"]}
                     ELSE {})
    ELSE {[w EXCEPT !.points = reserve.points,
                    !.travelers[t] =
                        [held EXCEPT !.translation = vec_add(@, movement),
                                     !.outcome = "moved"]]}

\* move_travelers over its query in the order `order`
RECURSIVE move_travelers(_, _, _)
move_travelers(w, order, delta_seconds) ==
    IF order = <<>> \/ w.status # "running" THEN {w}
    ELSE UNION {move_travelers(v, Tail(order), delta_seconds) :
                   v \in move_travelers_one(w, Head(order), delta_seconds)}

\* the commands queued for an entity, applied at the end of the stage
apply_commands(e) ==
    [e EXCEPT
        !.position = IF "insert TravelerPosition" \in e.commands
                     THEN Some(TravelerPosition(Unwrap(e.auto_traveler).origin, None))
                     ELSE @,
        !.no_path = IF "insert NoPath" \in e.commands THEN TRUE ELSE @,
        !.auto_traveler = IF "remove AutoTraveler" \in e.commands THEN None ELSE @,
        !.commands = {}]

\* Query<(Entity, &mut AutoTraveler), Added<AutoTraveler>>
new_travelers_query(ts) ==
    {t \in DOMAIN ts : ts[t].auto_traveler # None /\ ts[t].added}

\* Query<(Entity, &mut Transform, &mut AutoTraveler, &mut TravelerPosition),
\*       Without<TravelingPaused>>
moving_travelers_query(ts) ==
    {t \in DOMAIN ts :
        ts[t].auto_traveler # None /\ ts[t].position # None /\ ~ts[t].paused}

\* the orders in which a query can hand out the entities of S
RECURSIVE Orders(_)
Orders(S) ==
    IF S = {} THEN {<<>>}
    ELSE UNION {{<<t>> \o o : o \in Orders(S \ {t})} : t \in S}

\* the time steps of a frame: Time::delta_seconds, 0 in the first frame
Deltas == {0, 1, MaxDelta}

\* the graphs travelers move on: n waypoints in a line, two apart, with room
\* for two at the first and for one at the others, the second a fast one
Track(n) ==
    connect_all(
        add_all(EmptyPoints,
                [i \in 1..n |-> NavPoint_new(i, LineLocation(i, 2),
                                             IF i = 2 THEN 2 ELSE 1,
                                             IF i = 1 THEN 2 ELSE 1)]),
        [i \in 1..(n - 1) |-> <<i, i + 1>>])

TravelScenes == {Track(n) : n \in 3..MaxId}

\* the policies a creator asks for: the first traveler keeps the defaults of
\* AutoTraveler::new, the others get the other value of each enum
Configured(t, auto_traveler) ==
    IF t = 1 THEN auto_traveler
    ELSE with_path_behavior(
             with_destination_behavior(
                 with_blocked_behavior(auto_traveler, "Wait"),
                 <<"WithinRadius", 1>>),
             "ProgressiveRecompute")

\* the creators: each spawns its entity at the origin's location (examples/
\* traveling.rs) and may occupy the origin for it
RECURSIVE spawn_all(_, _, _)
spawn_all(w, todo, plan) ==
    IF todo = {} THEN w
    ELSE LET t == CHOOSE x \in todo : \A y \in todo : x <= y
             origin == plan[t].origin
             r == IF plan[t].occupies THEN occupy(w.points, origin)
                  ELSE [points |-> w.points, ok |-> FALSE]
             at == IF has_node(w.points, origin) THEN w.points[origin].location
                   ELSE <<0, 0, 0>>
             e == Entity(Configured(t, AutoTraveler_new(origin,
                                                        plan[t].destination, 1)),
                         at, r.ok)
         IN  spawn_all(World(r.points,
                             [x \in DOMAIN w.travelers \cup {t} |->
                                 IF x = t THEN e ELSE w.travelers[x]],
                             w.status),
                       todo \ {t}, plan)

\* what the creators do: all of them occupy the origin, or none does
Plans ==
    UNION {[Travelers -> [origin : Ids, destination : Ids, occupies : {o}]] :
              o \in BOOLEAN}

\* ---- state --------------------------------------------------------------
VARIABLES
    points,       \* NavGraph.points
    highest_id,   \* NavGraph.highest_id
    ret,          \* the most recent call and what it returned
    status,       \* "running", or how the last call failed to return
    nops,         \* mutating calls made so far
    scenario,     \* progress through DiamondScenario, -1 once left
    travelers,    \* the entities carrying an AutoTraveler, by entity
    phase         \* the system of the frame that runs next

vars == <<points, highest_id, ret, status, nops, scenario, travelers, phase>>

Ret(op, a, b, kind, path) ==
    [op |-> op, a |-> a, b |-> b, kind |-> kind, path |-> path]

\* tests::test_occupancy after its build
DiamondScenario ==
    << Ret("occupy", 2, 0, "true", <<>>),
       Ret("find_path", 1, 4, "Some", <<3, 4>>),
       Ret("occupy", 3, 0, "true", <<>>),
       Ret("find_path", 1, 4, "None", <<>>),
       Ret("unoccupy", 2, 0, "unit", <<>>),
       Ret("find_path", 1, 4, "Some", <<2, 4>>) >>

SameCall(r, s) == r.op = s.op /\ r.a = s.a /\ r.b = s.b

Follow(r) ==
    IF scenario >= 0 /\ scenario < Len(DiamondScenario)
        /\ SameCall(r, DiamondScenario[scenario + 1])
    THEN scenario + 1
    ELSE -1

SetMax(S) == CHOOSE m \in S : \A x \in S : x <= m

\* no entity carries an AutoTraveler
NoTravelers == <<>>

Init ==
    /\ points \in Scenes
    /\ highest_id = SetMax(DOMAIN points \cup {0})
    /\ ret = Ret("new", 0, 0, "unit", <<>>)
    /\ status = "running"
    /\ nops = 0
    /\ scenario = IF points = Diamond THEN 0 ELSE -1
    /\ travelers = NoTravelers
    /\ phase = "compute_path"

\* a call that returns r and leaves the graph as new_points
Returns(r, new_points) ==
    /\ points' = new_points
    /\ ret' = r
    /\ scenario' = Follow(r)
    /\ status' = status
    /\ UNCHANGED <<travelers, phase>>

\* a call that does not return
Stops(r, how) ==
    /\ status' = how
    /\ ret' = r
    /\ scenario' = Follow(r)
    /\ UNCHANGED <<points, travelers, phase>>

Mutation ==
    /\ status = "running"
    /\ nops < MaxOps
    /\ nops' = nops + 1

AddNavPoint(id) ==
    /\ Mutation
    /\ \E point \in NewPoints(id) :
        /\ Returns(Ret("add_nav_point", id, 0, "unit", <<>>),
                   add_nav_point(points, point))
        /\ highest_id' = highest_after_add(highest_id, point)

ConnectPoints(a, b) ==
    /\ Mutation
    /\ Returns(Ret("connect_points", a, b, "unit", <<>>),
               connect_points(points, a, b))
    /\ UNCHANGED highest_id

RemovePoint(id) ==
    /\ Mutation
    /\ Returns(Ret("remove_point", id, 0, "unit", <<>>),
               remove_point(points, id))
    /\ UNCHANGED highest_id

\* can_occupy takes &self, like find_path
CanOccupyCall(id) ==
    /\ status = "running"
    /\ ret.op # "can_occupy"
    /\ Returns(Ret("can_occupy", id, 0,
                   IF can_occupy(points, id) THEN "true" ELSE "false", <<>>),
               points)
    /\ UNCHANGED highest_id

OccupyCall(id) ==
    /\ status = "running"
    /\ LET r == occupy(points, id)
       IN  Returns(Ret("occupy", id, 0, IF r.ok THEN "true" ELSE "false", <<>>),
                   r.points)
    /\ UNCHANGED highest_id

UnoccupyCall(id) ==
    /\ status = "running"
    /\ has_node(points, id) => points[id].current_occupancy > -MaxWrap
    /\ LET r == unoccupy(points, id)
           call == Ret("unoccupy", id, 0, "unit", <<>>)
       IN  \/ ~r.ovf /\ Returns(call, r.points)
           \/ r.ovf /\ Returns(call, r.points)        \* wraps
           \/ r.ovf /\ Stops(call, "aborted")         \* overflow check
    /\ UNCHANGED highest_id

\* find_path takes &self: a search directly after a search or a query would
\* find what it finds in its place, so only searches after another call are
\* followed.
FindPathCall(a, b) ==
    /\ status = "running"
    /\ ret.op \notin {"find_path", "can_occupy"}
    /\ \E out \in find_path(points, a, b) :
        LET call == Ret("find_path", a, b, out.kind, out.path)
        IN  \/ out.kind \in {"Some", "None"} /\ Returns(call, points)
            \/ out.kind = "panic" /\ Stops(call, "aborted")
            \/ out.kind = "hang" /\ Stops(call, "hung")
            \/ out.kind = "cut" /\ Stops(call, "searching")
    /\ UNCHANGED highest_id

\* every call of the graph's interface, mutations within the budget
Occupy(id) == Mutation /\ OccupyCall(id)
Unoccupy(id) == Mutation /\ UnoccupyCall(id)
FindPath(a, b) == FindPathCall(a, b) /\ UNCHANGED nops
CanOccupy(id) == CanOccupyCall(id) /\ UNCHANGED nops

Next ==
    \/ \E id \in Ids : CanOccupy(id)
    \/ \E id \in Ids : AddNavPoint(id)
    \/ \E a, b \in Ids : ConnectPoints(a, b)
    \/ \E id \in Ids : RemovePoint(id)
    \/ \E id \in Ids : Occupy(id)
    \/ \E id \in Ids : Unoccupy(id)
    \/ \E a, b \in Ids : FindPath(a, b)

Spec == Init /\ [][Next]_vars

\* occupancy changes and searches on a fixed graph, without a budget
Reserve(id) == OccupyCall(id) /\ UNCHANGED nops
Release(id) == UnoccupyCall(id) /\ UNCHANGED nops
Search(a, b) == FindPathCall(a, b) /\ UNCHANGED nops

NextOcc ==
    \/ \E id \in Ids : Reserve(id)
    \/ \E id \in Ids : Release(id)
    \/ \E a, b \in Ids : Search(a, b)

SpecOcc == Init /\ [][NextOcc]_vars

\* searches alone, on any of the graphs
InitSearch ==
    /\ points \in SearchScenes
    /\ highest_id = SetMax(DOMAIN points \cup {0})
    /\ ret = Ret("new", 0, 0, "unit", <<>>)
    /\ status = "running"
    /\ nops = 0
    /\ scenario = -1
    /\ travelers = NoTravelers
    /\ phase = "compute_path"

NextSearch == \E a, b \in Ids : Search(a, b)

SpecSearch == InitSearch /\ [][NextSearch]_vars

\* the occupancy calls alone
Query(id) == CanOccupyCall(id) /\ UNCHANGED nops

NextCap ==
    \/ \E id \in Ids : Reserve(id)
    \/ \E id \in Ids : Release(id)
    \/ \E id \in Ids : Query(id)

SpecCap == Init /\ [][NextCap]_vars

\* ---- the systems of a frame (lib.rs, traveler.rs) -----------------------
InitTravel ==
    /\ \E scene \in TravelScenes, plan \in Plans :
          LET w == spawn_all(World(scene, NoTravelers, "running"), Travelers, plan)
          IN  points = w.points /\ travelers = w.travelers
    /\ highest_id = SetMax(DOMAIN points \cup {0})
    /\ ret = Ret("new", 0, 0, "unit", <<>>)
    /\ status = "running"
    /\ nops = 0
    /\ scenario = -1
    /\ phase = "compute_path"

\* a system of the frame has run and left the world w
Ran(r, w, next_phase) ==
    /\ points' = w.points
    /\ travelers' = w.travelers
    /\ status' = w.status
    /\ ret' = r
    /\ phase' = next_phase
    /\ scenario' = Follow(r)
    /\ UNCHANGED <<highest_id, nops>>

\* the system compute_initial_path
ComputeInitialPath ==
    /\ status = "running"
    /\ phase = "compute_path"
    /\ \E w \in compute_initial_path(World(points, travelers, status),
                                     new_travelers_query(travelers)) :
          Ran(Ret("compute_initial_path", 0, 0, "unit", <<>>), w, "move")

\* the system move_travelers, and the end of the stage
MoveTravelers(delta_seconds) ==
    /\ status = "running"
    /\ phase = "move"
    /\ \E order \in Orders(moving_travelers_query(travelers)) :
        LET fresh == [t \in DOMAIN travelers |->
                        [travelers[t] EXCEPT !.outcome = "skipped"]]
        IN  \E w \in move_travelers(World(points, fresh, status), order,
                                    delta_seconds) :
              Ran(Ret("move_travelers", delta_seconds, 0, "unit", order),
                  IF w.status = "running"
                  THEN [w EXCEPT !.travelers =
                           [t \in DOMAIN w.travelers |->
                               apply_commands(w.travelers[t])]]
                  ELSE w,
                  "compute_path")

\* The application inserts or removes TravelingPaused through its commands,
\* which take effect at the end of a stage: between two frames.
Pause(t) ==
    /\ status = "running"
    /\ phase = "compute_path"
    /\ ~travelers[t].paused
    /\ travelers' = [travelers EXCEPT ![t].paused = TRUE]
    /\ UNCHANGED <<points, highest_id, ret, status, nops, scenario, phase>>

Resume(t) ==
    /\ status = "running"
    /\ phase = "compute_path"
    /\ travelers[t].paused
    /\ travelers' = [travelers EXCEPT ![t].paused = FALSE]
    /\ UNCHANGED <<points, highest_id, ret, status, nops, scenario, phase>>

NextTravel ==
    \/ ComputeInitialPath
    \/ \E delta_seconds \in Deltas : MoveTravelers(delta_seconds)
    \/ \E t \in Pausable : Pause(t)
    \/ \E t \in Pausable : Resume(t)

SpecTravel == InitTravel /\ [][NextTravel]_vars

\* ---- a lone traveler under the frame schedule ---------------------------
\* one traveler on a static graph, never paused, after the frame in which
\* compute_initial_path saw it (move_travelers finds no TravelerPosition in
\* that frame; the commands are applied at its end)
InitLone ==
    /\ \E scene \in TravelScenes,
          plan \in [{1} -> [origin : Ids, destination : Ids, occupies : BOOLEAN]] :
          LET spawned == spawn_all(World(scene, NoTravelers, "running"), {1}, plan)
          IN  \E w \in compute_initial_path(spawned,
                                            new_travelers_query(spawned.travelers)) :
                /\ w.status = "running"
                /\ points = w.points
                /\ travelers = [t \in DOMAIN w.travelers |->
                                   apply_commands(w.travelers[t])]
    /\ highest_id = SetMax(DOMAIN points \cup {0})
    /\ ret = Ret("new", 0, 0, "unit", <<>>)
    /\ status = "running"
    /\ nops = 0
    /\ scenario = -1
    /\ phase = "compute_path"

\* a run of move_travelers in a frame that took some time
Tick == \E delta_seconds \in Deltas \ {0} : MoveTravelers(delta_seconds)

NextLone == ComputeInitialPath \/ Tick

\* the schedule runs both systems in every frame, frame after frame
SpecLone ==
    InitLone /\ [][NextLone]_vars /\ WF_vars(ComputeInitialPath) /\ WF_vars(Tick)

\* ---- properties ---------------------------------------------------------
Range(s) == {s[i] : i \in 1..Len(s)}

Found == ret.op = "find_path" /\ ret.kind = "Some"

Linked(x, y) ==
    /\ has_node(points, x) /\ has_node(points, y)
    /\ y \in points[x].connections /\ x \in points[y].connections

\* the walks from the end of w to b that repeat no waypoint and enter only
\* waypoints with headroom (a cheapest walk is among them: costs are >= 0)
RECURSIVE WalksOnto(_, _, _)
WalksOnto(p, w, b) ==
    IF w[Len(w)] = b THEN {w}
    ELSE UNION {WalksOnto(p, Append(w, n), b) :
                   n \in {m \in p[w[Len(w)]].connections :
                             can_occupy(p, m) /\ m \notin Range(w)}}

Walks(p, a, b) ==
    IF has_node(p, a) /\ has_node(p, b) THEN WalksOnto(p, <<a>>, b) ELSE {}

RECURSIVE WalkCost(_, _)
WalkCost(p, w) ==
    IF Len(w) < 2 THEN 0
    ELSE h_func(p, w[1], w[2]) + WalkCost(p, Tail(w))

\* no edge cost of p reaches u32::MAX
Unsaturated(p) ==
    \A x \in DOMAIN p : \A y \in p[x].connections : h_func(p, x, y) >= 0

\* C1: a sequence returned by find_path(a, b) does not contain a; if a # b it
\* is non-empty, ends in b, repeats no id, and each consecutive pair of
\* <<a>> \o s is connected, each id being in the other's connection set.
C1_PathWellFormed ==
    Found =>
        LET s == ret.path
            w == <<ret.a>> \o ret.path
        IN  /\ ret.a \notin Range(s)
            /\ ret.a # ret.b =>
                /\ s # <<>>
                /\ s[Len(s)] = ret.b
                /\ \A i, j \in 1..Len(s) : s[i] = s[j] => i = j
                /\ \A i \in 1..(Len(w) - 1) : Linked(w[i], w[i + 1])

\* C2: a sequence returned by find_path(a, b) costs no more than any walk
\* from a to b through waypoints with headroom (stated for the graphs whose
\* edge costs stay below u32::MAX, where the sums are plain integers).
C2_ShortestPath ==
    (Found /\ Unsaturated(points)) =>
        \A w \in Walks(points, ret.a, ret.b) :
            WalkCost(points, <<ret.a>> \o ret.path) <= WalkCost(points, w)

\* C3: find_path(a, b) returns, and it returns absent exactly when a or b is
\* not in the graph or no walk through waypoints with headroom leads from a
\* to b.
C3_AbsentIffNoWalk ==
    ret.op = "find_path" =>
        /\ ret.kind \in {"Some", "None"}
        /\ ret.kind = "None" <=> Walks(points, ret.a, ret.b) = {}

\* C4: saturating waypoints by occupy/unoccupy calls never removes one from
\* the graph, and no sequence returned by find_path(a, b) with a # b contains
\* a waypoint whose current_occupancy equals its max_occupancy.
C4_FullNeverOnPath ==
    [][ /\ \A id \in Ids : has_node(points, id) => has_node(points', id)
        /\ (ret'.op = "find_path" /\ ret'.kind = "Some" /\ ret'.a # ret'.b) =>
              \A id \in Range(ret'.path) :
                  /\ has_node(points', id)
                  /\ points'[id].current_occupancy # points'[id].max_occupancy
      ]_vars

\* C4 witness: a search between two waypoints succeeded although a neighbor
\* of its origin is full.
C4_Witness ==
    /\ Found /\ ret.a # ret.b
    /\ \E id \in points[ret.a].connections :
          /\ has_node(points, id)
          /\ points[id].max_occupancy > 0
          /\ points[id].current_occupancy = points[id].max_occupancy

\* C5: in the diamond, occupy(2); find_path(1,4); occupy(3); find_path(1,4);
\* unoccupy(2); find_path(1,4) yields <<3,4>>, then absent, then <<2,4>>.
C5_DiamondScenario ==
    scenario > 0 => (status = "running" /\ ret = DiamondScenario[scenario])

\* C5 witness: the whole scenario has been played.
C5_Witness == scenario = Len(DiamondScenario)

\* the graph is the chain 1 - 2 - ... - n with free capacity everywhere
IsChain(p, n) ==
    /\ DOMAIN p = 1..n
    /\ \A i \in 1..n :
          /\ p[i].connections = {i - 1, i + 1} \cap (1..n)
          /\ NavPoint_can_occupy(p[i])

\* C6: on a chain of n waypoints with free capacity, find_path(first, last)
\* returns exactly the other n - 1 waypoints in order.
C6_ChainPath ==
    \A n \in Ids :
        (IsChain(points, n) /\ ret.op = "find_path" /\ ret.a = 1 /\ ret.b = n) =>
            (ret.kind = "Some" /\ ret.path = [i \in 1..(n - 1) |-> i + 1])

\* C7: find_path(a, a) for a waypoint of the graph returns the empty
\* sequence, whatever its occupancy and its connections.
C7_SelfPathEmpty ==
    (ret.op = "find_path" /\ ret.a = ret.b /\ has_node(points, ret.a)) =>
        (status = "running" /\ ret.kind = "Some" /\ ret.path = <<>>)

\* C7 witness: find_path(a, a) has returned for a full, connected waypoint.
C7_Witness ==
    /\ Found /\ ret.a = ret.b
    /\ points[ret.a].connections # {}
    /\ ~NavPoint_can_occupy(points[ret.a])

\* C8: after remove(id) of a waypoint of the graph, id is not in the graph
\* and in no waypoint's connection set, and a search made then returns, never
\* through id, and finds a route whenever one exists (the searches are stated
\* for the graphs whose edge costs stay below u32::MAX).
C8_RemoveClearsReferences ==
    [][ (ret'.op = "remove_point" /\ has_node(points, ret'.a)) =>
          /\ ~has_node(points', ret'.a)
          /\ \A n \in DOMAIN points' : ret'.a \notin points'[n].connections
          /\ Unsaturated(points) =>
                \A a, b \in DOMAIN points' : \A out \in find_path(points', a, b) :
                    /\ out.kind \in {"Some", "None"}
                    /\ ret'.a \notin Range(out.path)
                    /\ out.kind = "None" <=> Walks(points', a, b) = {}
      ]_vars

Symmetric(p) ==
    \A a, b \in DOMAIN p : b \in p[a].connections <=> a \in p[b].connections

\* C9: every call keeps connectivity symmetric: for all a, b in the graph,
\* b is in a's connections iff a is in b's.
C9_SymmetryKept == [][Symmetric(points) => Symmetric(points')]_vars

\* C10: connect is idempotent and order-insensitive: on every graph,
\* connect(a, b) twice, connect(a, b) once and connect(b, a) once give the
\* same graph.
C10_ConnectIdempotent ==
    \A a, b \in Ids :
        LET once == connect_points(points, a, b)
        IN  /\ connect_points(once, a, b) = once
            /\ connect_points(points, b, a) = once

\* C10 witness: a connect call has just linked two different waypoints.
C10_Witness ==
    /\ ret.op = "connect_points" /\ ret.a # ret.b
    /\ has_node(points, ret.a) /\ has_node(points, ret.b)
    /\ ret.b \in points[ret.a].connections

\* C11: a call that names an id not in the graph changes nothing: connect
\* with a or b absent, occupy, unoccupy and remove with id absent leave the
\* whole graph as it was and return; occupy and can_occupy return false.
C11_AbsentIdNoOp ==
    [][ /\ (/\ ret'.op \in {"occupy", "unoccupy", "remove_point", "can_occupy"}
            /\ ~has_node(points, ret'.a)) =>
              /\ points' = points
              /\ status' = "running"
              /\ ret'.op \in {"occupy", "can_occupy"} => ret'.kind = "false"
        /\ (/\ ret'.op = "connect_points"
            /\ ~has_node(points, ret'.a) \/ ~has_node(points, ret'.b)) =>
              /\ points' = points
              /\ status' = "running"
      ]_vars

\* C11 witness: connect has been called with a connected waypoint of the
\* graph and an id that is not in the graph.
C11_Witness ==
    /\ ret.op = "connect_points"
    /\ has_node(points, ret.a) /\ ~has_node(points, ret.b)
    /\ points[ret.a].connections # {}

\* the counter of p has not reached its capacity (a negative representative
\* is a count of 2^31 or more, above every capacity of these graphs)
Headroom(p) ==
    p.current_occupancy >= 0 /\ p.current_occupancy < p.max_occupancy

\* C12: for a waypoint of the graph, occupy returns true and adds exactly one
\* to current_occupancy if it was below max_occupancy, and otherwise returns
\* false and changes nothing; can_occupy returns true exactly when occupy
\* would succeed, and changes nothing.  No other waypoint is touched.
C12_OccupyCounts ==
    [][ /\ (ret'.op = "occupy" /\ has_node(points, ret'.a)) =>
              /\ DOMAIN points' = DOMAIN points
              /\ \A i \in DOMAIN points \ {ret'.a} : points'[i] = points[i]
              /\ IF Headroom(points[ret'.a])
                 THEN /\ ret'.kind = "true"
                      /\ points'[ret'.a] =
                            [points[ret'.a] EXCEPT !.current_occupancy = @ + 1]
                 ELSE /\ ret'.kind = "false"
                      /\ points'[ret'.a] = points[ret'.a]
        /\ (ret'.op = "can_occupy" /\ has_node(points, ret'.a)) =>
              /\ points' = points
              /\ ret'.kind = "true" <=> Headroom(points[ret'.a])
              /\ ret'.kind = "true" <=> occupy(points, ret'.a).ok
      ]_vars

\* C12 witness: a waypoint with room for two has taken two occupants and
\* has just refused the third.
C12_Witness ==
    /\ ret.op = "occupy" /\ ret.kind = "false" /\ has_node(points, ret.a)
    /\ points[ret.a].max_occupancy = 2
    /\ points[ret.a].current_occupancy = 2

\* C13: under every sequence of occupy and unoccupy calls every call returns
\* and 0 <= current_occupancy <= max_occupancy holds for every waypoint.
C13_OccupancyInBounds ==
    /\ status = "running"
    /\ \A id \in DOMAIN points :
          /\ points[id].current_occupancy >= 0
          /\ points[id].current_occupancy <= points[id].max_occupancy

\* C14: no sequence of calls reaches an abort: every call returns.
C14_NeverAborts == status # "aborted"

\* ---- properties of the travelers ----------------------------------------
\* a step of move_travelers (with the end of its stage)
MoveStep == phase = "move" /\ phase' = "compute_path"

\* a step of compute_initial_path
ComputeStep == phase = "compute_path" /\ phase' = "move" /\ status' = "running"

Failed(e) == e.no_path \/ "insert NoPath" \in e.commands

\* C15: a traveler for which find_path(origin, destination) returns absent
\* at creation is marked NoPath, gets no TravelerPosition and no path, and no
\* later frame touches it: the movement step skips it, leaves its position
\* and state as they are, and changes no occupancy counter on its behalf.
C15_FailedNeverMoves ==
    [][ /\ ComputeStep =>
              \A t \in new_travelers_query(travelers) :
                  LET auto_traveler == Unwrap(travelers[t].auto_traveler)
                      outs == find_path(points, auto_traveler.origin,
                                        auto_traveler.destination)
                  IN  outs = {PathNone} =>
                          /\ "insert NoPath" \in travelers'[t].commands
                          /\ "insert TravelerPosition" \notin travelers'[t].commands
                          /\ Unwrap(travelers'[t].auto_traveler).path = None
        /\ MoveStep =>
              \A t \in DOMAIN travelers :
                  Failed(travelers[t]) =>
                      /\ travelers'[t].no_path
                      /\ travelers'[t].position = None
                      /\ travelers'[t].outcome = "skipped"
                      /\ travelers'[t].translation = travelers[t].translation
                      /\ travelers'[t].auto_traveler = travelers[t].auto_traveler
                      /\ Unwrap(travelers'[t].auto_traveler).path = None
        /\ (MoveStep /\ \A t \in DOMAIN travelers : Failed(travelers[t])) =>
              points' = points
      ]_vars

\* C15 witness: a traveler is marked NoPath, a frame has passed over it, and
\* by now a path from its origin to its destination exists.
C15_Witness ==
    \E t \in DOMAIN travelers :
        /\ travelers[t].no_path /\ travelers[t].position = None
        /\ ret.op = "move_travelers" /\ ret.a > 0
        /\ \E out \in find_path(points, Unwrap(travelers[t].auto_traveler).origin,
                                Unwrap(travelers[t].auto_traveler).destination) :
              out.kind = "Some"

\* C16: whenever the movement step retires a traveler, the traveler's
\* current_nav_point is its destination, whatever the length of its path.
C16_RetiredAtDestination ==
    [][ MoveStep =>
          \A t \in DOMAIN travelers :
              travelers'[t].outcome = "retired" =>
                  Unwrap(travelers[t].position).current_nav_point =
                      Unwrap(travelers[t].auto_traveler).destination
      ]_vars

\* the travelers placed at, and those holding a reservation of, waypoint id
Residents(ts, id) ==
    {t \in DOMAIN ts :
        ts[t].position # None /\ Unwrap(ts[t].position).current_nav_point = id}
Reservers(ts, id) ==
    {t \in DOMAIN ts :
        ts[t].position # None /\ Unwrap(ts[t].position).next_nav_point = Some(id)}

\* C17: if every creator occupied its traveler's origin successfully and
\* nothing else releases occupancy, then for every waypoint the travelers at
\* it plus the travelers holding it as reservation number at most its
\* max_occupancy, and the frame never aborts.
C17_CapacityRespected ==
    (\A t \in DOMAIN travelers : travelers[t].claimed) =>
        /\ status = "running"
        /\ \A id \in DOMAIN points :
              Cardinality(Residents(travelers, id))
                  + Cardinality(Reservers(travelers, id))
                      <= points[id].max_occupancy

\* C17 witness: with all origins occupied by the creators, a traveler has
\* been refused a waypoint that another traveler stands at or holds.
C17_Witness ==
    /\ \A t \in DOMAIN travelers : travelers[t].claimed
    /\ \E t \in DOMAIN travelers :
          /\ travelers[t].outcome = "blocked"
          /\ LET auto_traveler == Unwrap(travelers[t].auto_traveler)
                 target == Unwrap(auto_traveler.path)[auto_traveler.current_index + 2]
             IN  Residents(travelers, target) \cup Reservers(travelers, target) # {}

\* what unoccupy is to leave of a counter: one less, with a floor at zero
Released(n) == IF n > 0 THEN n - 1 ELSE 0

\* C18: arrival is one step of a frame.  A traveler that holds a reservation
\* (both waypoints in the graph) and whose displacement squared reaches the
\* remaining distance squared, or whose remaining distance is within the snap
\* epsilon, is in that frame put exactly at the next waypoint's location, its
\* old current_nav_point is unoccupied once, current_nav_point becomes the
\* reserved waypoint, the reservation is cleared and current_index grows by
\* one; in every other case current_index stays, so it grows by at most one
\* a frame and never shrinks.
C18_ArrivalAtomic ==
    [][ MoveStep =>
          \A t \in DOMAIN travelers :
              LET e == travelers[t]
                  auto_traveler == Unwrap(e.auto_traveler)
                  position == Unwrap(e.position)
                  next == Unwrap(position.next_nav_point)
                  from == points[position.current_nav_point]
                  to == points[next]
                  step == auto_traveler.speed * from.speed_modifier * ret'.a
                  dist_squared == distance_squared(e.translation, to.location)
                  reaches == step * step >= dist_squared \/ dist_squared <= 0
                  alone == ret'.path = <<t>>
              IN  IF /\ t \in moving_travelers_query(travelers)
                     /\ position.next_nav_point # None
                     /\ has_node(points, position.current_nav_point)
                     /\ has_node(points, next)
                     /\ reaches
                  THEN /\ status' = "running"
                       /\ travelers'[t].translation = to.location
                       /\ travelers'[t].position = Some(TravelerPosition(next, None))
                       /\ Unwrap(travelers'[t].auto_traveler).current_index =
                              auto_traveler.current_index + 1
                       /\ alone =>
                              points' = [points EXCEPT
                                  ![position.current_nav_point].current_occupancy =
                                      Released(@)]
                  ELSE e.auto_traveler # None =>
                          \/ travelers'[t].auto_traveler = None
                          \/ LET index == Unwrap(travelers'[t].auto_traveler).current_index
                             IN  \/ index = auto_traveler.current_index
                                 \/ /\ index = auto_traveler.current_index + 1
                                    /\ travelers'[t].outcome = "arrived"
      ]_vars

\* t comes before u in the sequence order
Before(order, t, u) ==
    \E i, j \in 1..Len(order) : i < j /\ order[i] = t /\ order[j] = u

\* the waypoint the traveler e has to reserve next
Target(e) ==
    Unwrap(Unwrap(e.auto_traveler).path)[Unwrap(e.auto_traveler).current_index + 2]

\* e is processed by the movement step, is not retired by it, and holds no
\* reservation
Reserving(ts, t) ==
    /\ t \in moving_travelers_query(ts)
    /\ ~arrived(Unwrap(ts[t].auto_traveler))
    /\ Unwrap(ts[t].position).next_nav_point = None

\* C19: if two non-paused travelers without a reservation need the same
\* waypoint w next and w has room for exactly one more, then after the frame
\* the one processed first holds next_nav_point = w, the other one does not,
\* w's occupancy has risen by exactly one, and the other's index,
\* current_nav_point, reservation and position are unchanged.
C19_FirstComeFirstServed ==
    [][ MoveStep =>
          \A t, u \in DOMAIN travelers :
              (/\ t # u
               /\ Reserving(travelers, t) /\ Reserving(travelers, u)
               /\ Target(travelers[t]) = Target(travelers[u])
               /\ has_node(points, Target(travelers[t]))
               /\ points[Target(travelers[t])].current_occupancy + 1 =
                      points[Target(travelers[t])].max_occupancy
               /\ Before(ret'.path, t, u)) =>
                  LET w == Target(travelers[t])
                  IN  /\ Unwrap(travelers'[t].position).next_nav_point = Some(w)
                      /\ points'[w].current_occupancy =
                             points[w].current_occupancy + 1
                      /\ travelers'[u].auto_traveler = travelers[u].auto_traveler
                      /\ travelers'[u].position = travelers[u].position
                      /\ travelers'[u].translation = travelers[u].translation
      ]_vars

\* C20: a frame in which a traveler without a reservation is refused its
\* next waypoint leaves the traveler's index, current_nav_point, absent
\* next_nav_point, path and position as they were, does not retire it, and
\* changes no occupancy counter for it; a traveler without a reservation
\* whose next waypoint is full when it is processed is refused.
C20_BlockedOnlyWaits ==
    [][ MoveStep =>
          /\ \A t \in DOMAIN travelers :
                travelers'[t].outcome = "blocked" =>
                    /\ Reserving(travelers, t)
                    /\ travelers'[t] = [travelers[t] EXCEPT !.outcome = "blocked"]
                    /\ Reserving(travelers', t)
          /\ \A t \in DOMAIN travelers :
                (/\ ret'.path = <<t>>
                 /\ Reserving(travelers, t)
                 /\ ~can_occupy(points, Target(travelers[t]))) =>
                    /\ travelers'[t].outcome = "blocked"
                    /\ points' = points
          /\ (\A t \in DOMAIN travelers :
                 travelers'[t].outcome \in {"blocked", "skipped"}) =>
                    points' = points
      ]_vars

\* C20 witness: a traveler has been refused its next waypoint in a frame.
C20_Witness ==
    \E t \in DOMAIN travelers :
        /\ travelers[t].outcome = "blocked"
        /\ ~can_occupy(points, Target(travelers[t]))
        /\ ret.op = "move_travelers" /\ ret.a > 0

\* where a traveler is: its current_nav_point, and its origin as long as it
\* has no TravelerPosition (not yet pathed, or failed)
Located(ts, id) ==
    {t \in DOMAIN ts :
        IF ts[t].position # None
        THEN Unwrap(ts[t].position).current_nav_point = id
        ELSE Unwrap(ts[t].auto_traveler).origin = id}

\* C21: if every creator occupied its traveler's origin successfully and
\* nothing else changes occupancy on the static graph, then every waypoint's
\* current_occupancy is the number of travelers (active, failed or retired)
\* located at it plus the number of travelers holding it as next_nav_point;
\* a reservation is of another waypoint than the current one, so in transit
\* the traveler is counted at both.
C21_OccupancyConserved ==
    (\A t \in DOMAIN travelers : travelers[t].claimed) =>
        /\ \A id \in DOMAIN points :
              points[id].current_occupancy =
                  Cardinality(Located(travelers, id))
                      + Cardinality(Reservers(travelers, id))
        /\ \A t \in DOMAIN travelers :
              (travelers[t].position # None
                  /\ Unwrap(travelers[t].position).next_nav_point # None) =>
                    LET position == Unwrap(travelers[t].position)
                        next == Unwrap(position.next_nav_point)
                    IN  /\ next # position.current_nav_point
                        /\ points[next].current_occupancy >= 1
                        /\ points[position.current_nav_point].current_occupancy >= 1

\* C21 witness: with all origins occupied by the creators, one traveler is
\* between two waypoints and the other has arrived at one and left another.
C21_Witness ==
    /\ \A t \in DOMAIN travelers : travelers[t].claimed
    /\ \E t, u \in DOMAIN travelers :
          /\ travelers[t].outcome = "moved"
          /\ travelers[u].outcome = "arrived"

\* C22: a traveler follows its path one hop at a time: with current_index i
\* its current_nav_point is the i-th element of origin, path[0], path[1],
\* ..., and a waypoint it holds as next_nav_point is the element after that
\* one and a neighbor of its current_nav_point.
C22_OneHopAtATime ==
    \A t \in DOMAIN travelers :
        (travelers[t].position # None /\ travelers[t].auto_traveler # None) =>
            LET auto_traveler == Unwrap(travelers[t].auto_traveler)
                position == Unwrap(travelers[t].position)
                route == <<auto_traveler.origin>> \o Unwrap(auto_traveler.path)
                index == auto_traveler.current_index
            IN  /\ position.current_nav_point = route[index + 1]
                /\ position.next_nav_point # None =>
                      /\ Unwrap(position.next_nav_point) = route[index + 2]
                      /\ Unwrap(position.next_nav_point) \in
                             points[position.current_nav_point].connections

\* the travelers with the policies of traveler t replaced
Reconfigured(ts, t, bb, db, pb) ==
    [ts EXCEPT ![t].auto_traveler =
        {with_path_behavior(
             with_destination_behavior(with_blocked_behavior(a, bb), db), pb) :
           a \in @}]

\* a world without the policies of its travelers
Unconfigured(w) ==
    [w EXCEPT !.travelers =
        [t \in DOMAIN w.travelers |->
            [w.travelers[t] EXCEPT !.auto_traveler =
                {with_path_behavior(
                     with_destination_behavior(
                         with_blocked_behavior(a, "Wait"), <<"Exactly">>),
                     "Precompute") : a \in @}]]]

\* C24: the three policy flags have no effect.  Whatever blocked_behavior,
\* destination_behavior and path_behavior a traveler is given instead of its
\* own, the loop body of each system of the frame, run for it in a world the
\* system can see and with any time step, leaves the same worlds up to the
\* flags: so travelers that differ only in the flags go through the same
\* sequences of path, current_index, waypoints, translation and occupancy.
\* In particular an arrival puts the traveler exactly at the waypoint's
\* location.
C24_PoliciesHaveNoEffect ==
    /\ phase = "compute_path" =>
          \A t \in new_travelers_query(travelers) :
          \A out \in find_path(points, Unwrap(travelers[t].auto_traveler).origin,
                               Unwrap(travelers[t].auto_traveler).destination) :
              LET same == Unconfigured(compute_initial_path_one(
                              World(points, travelers, status), t, out))
              IN  \A bb \in BlockedBehavior, db \in DestinationBehavior,
                     pb \in PathBehavior :
                      LET other == Reconfigured(travelers, t, bb, db, pb)
                      IN  /\ t \in new_travelers_query(other)
                          /\ Unconfigured(compute_initial_path_one(
                                 World(points, other, status), t, out)) = same
    /\ phase = "move" =>
          \A t \in moving_travelers_query(travelers) :
          \A delta_seconds \in Deltas :
              LET same == {Unconfigured(w) :
                              w \in move_travelers_one(
                                        World(points, travelers, status), t,
                                        delta_seconds)}
              IN  \A bb \in BlockedBehavior, db \in DestinationBehavior,
                     pb \in PathBehavior :
                      LET other == Reconfigured(travelers, t, bb, db, pb)
                      IN  /\ t \in moving_travelers_query(other)
                          /\ {Unconfigured(w) :
                                w \in move_travelers_one(
                                          World(points, other, status), t,
                                          delta_seconds)} = same
    /\ \A t \in DOMAIN travelers :
          travelers[t].outcome = "arrived" =>
              travelers[t].translation =
                  points[Unwrap(travelers[t].position).current_nav_point].location

\* C24 witness: in one frame a traveler built with BlockedBehavior::Wait and
\* DestinationBehavior::WithinRadius arrived at a waypoint, and a traveler
\* built with BlockedBehavior::Recompute was blocked.
C24_Witness ==
    \E t, u \in DOMAIN travelers :
        /\ travelers[t].outcome = "arrived"
        /\ travelers[t].auto_traveler # None
        /\ Unwrap(travelers[t].auto_traveler).destination_behavior[1] = "WithinRadius"
        /\ travelers[u].outcome = "blocked"
        /\ Unwrap(travelers[u].auto_traveler).blocked_behavior = "Recompute"

\* C23: a lone traveler always finishes: on a static graph where nothing else
\* changes occupancy, a traveler that is never paused, has its path computed,
\* started at its origin's location and is run with a positive time step in
\* every frame is eventually retired (its AutoTraveler removed), the frames
\* following each other forever.
C23_LoneTravelerFinishes ==
    (travelers[1].position # None) ~> (travelers[1].auto_traveler = None)

\* C25: find_path always terminates: on every finite graph and for every
\* pair of ids the search loop ends and the walk along came_from from the
\* destination reaches the origin without cycling, so the call returns a
\* sequence or absent and never walks the predecessors forever.
C25_FindPathTerminates ==
    ret.op = "find_path" => status # "hung"
====
